---- MODULE Spec2Model ----
(***************************************************************************)
(* Affordability estimation engine of the five Streamlit variants          *)
(* (app.py, app2.py: regional breakdown; app3.py, app4.py, app5.py: map /  *)
(* radius).                                                                *)
(*                                                                         *)
(* Number representation (the sources use binary floating point):          *)
(*   money          integer cents (a price is an integer number of dollars)*)
(*   annual rates   integer multiples of 0.0001                            *)
(*   monthly rates and growth factors  fixed point, RateOne = 1.0          *)
(*   logarithms, probabilities, radius factor  fixed point, Q = 1.0        *)
(*   buyer counts   integer hundredths of a person                         *)
(* Every product that is divided afterwards is rounded down once.          *)
(***************************************************************************)
EXTENDS Integers, Sequences, FiniteSets, TLC

Max(a, b) == IF a >= b THEN a ELSE b

Abs(a) == IF a >= 0 THEN a ELSE -a

(***************************************************************************)
(* Arithmetic helpers.  The recursive ones are functions, so that each     *)
(* argument is a value when the body is evaluated.                         *)
(***************************************************************************)

\* One step of the long multiplication below: h = <<q, r>> so far, one more
\* hexadecimal digit of b, aq = a \div c, ar = a % c
QRStep[h \in Nat \X Nat, digit \in Nat, aq \in Nat, ar \in Nat, c \in Nat] ==
    << 16 * h[1] + digit * aq + (16 * h[2] + digit * ar) \div c,
       (16 * h[2] + digit * ar) % c >>

\* <<q, r>> with a*b = q*c + r and 0 <= r < c, for a, b >= 0 and
\* 0 < c < 2^26, without forming the product a*b
MulDivQR[a \in Nat, b \in Nat, c \in Nat] ==
    IF b = 0 THEN <<0, 0>>
    ELSE QRStep[MulDivQR[a, b \div 16, c], b % 16, a \div c, a % c, c]

\* floor(a*b/c)
MulDiv(a, b, c) == MulDivQR[a, b, c][1]

\* 1.0 of the monthly-rate fixed point: stress_rate / 12 with stress_rate in
\* units of 0.0001 is stress_rate / 120000.
RateOne == 120000

RoundQR[qr \in Nat \X Nat, c \in Nat] == qr[1] + (IF 2 * qr[2] >= c THEN 1 ELSE 0)

\* a*b at the RateOne scale, rounded to nearest
FixMul[a \in Nat, b \in Nat] == RoundQR[MulDivQR[a, b, RateOne], RateOne]

\* b**n at the RateOne scale, by repeated squaring
Square[h \in Nat] == FixMul[h, h]

Power[b \in Nat, n \in Nat] ==
    IF n = 0 THEN RateOne
    ELSE IF n % 2 = 1 THEN FixMul[Square[Power[b, n \div 2]], b]
    ELSE Square[Power[b, n \div 2]]

\* 1.0 of the fixed point of logarithms, probabilities and the radius factor
Q == 10000

\* floor(log2 n) for 1 <= n < 2^31
Log2Floor(n) == CHOOSE e \in 0..30 : 2 ^ e <= n /\ n \div 2 < 2 ^ e

\* 2 atanh(u) = 2 (u + u^3/3 + u^5/5 + u^7/7) for 0 <= u <= 1/3, at scale Q
TwoAtanh[u \in Nat] ==
    LET u2 == (u * u) \div Q
        u3 == (u * u2) \div Q
        u5 == (u3 * u2) \div Q
        u7 == (u5 * u2) \div Q
    IN  2 * (u + u3 \div 3 + u5 \div 5 + u7 \div 7)

\* ln(2^e * f / 2^14) for a mantissa 2^14 <= f < 2^15
LnParts[e \in Nat, f \in Nat] ==
    (e * 693147) \div 100 + TwoAtanh[((f - 16384) * Q) \div (f + 16384)]

\* np.log of an integer n >= 1, at scale Q: n = 2^e * f with 1 <= f < 2,
\* ln n = e ln 2 + 2 atanh((f-1)/(f+1)); f keeps 15 bits of n
LnScaled[e \in Nat, n \in Nat] ==
    LnParts[e, IF e >= 14 THEN n \div (2 ^ (e - 14)) ELSE n * (2 ^ (14 - e))]

Ln[n \in Nat] == LnScaled[Log2Floor(n), n]

\* exp(r) for 0 <= r < ln 2, at scale Q (Taylor series)
ExpSeries[r \in Nat] ==
    LET r2 == (r * r) \div Q
        r3 == (r2 * r) \div Q
        r4 == (r3 * r) \div Q
        r5 == (r4 * r) \div Q
        r6 == (r5 * r) \div Q
    IN  Q + r + r2 \div 2 + r3 \div 6 + r4 \div 24 + r5 \div 120 + r6 \div 720

\* exp(k ln 2 + r) = 2^k exp(r); saturates at 2^30
ExpParts[k \in Nat, w \in Nat] ==
    IF k > 16 THEN 2 ^ 30 ELSE ExpSeries[w - (k * 693147) \div 100] * (2 ^ k)

\* exp(w) for w >= 0 at scale Q
ExpPos[w \in Nat] ==
    ExpParts[IF w > 200000 THEN 17 ELSE (w * 100) \div 693147, w]

\* np.exp at scale Q
Exp[w \in Int] == IF w >= 0 THEN ExpPos[w] ELSE (Q * Q) \div ExpPos[-w]

\* np.tanh at scale Q: tanh v = 1 - 2/(exp(2v) + 1), odd in v
Tanh[v \in Int] ==
    IF v >= 0 THEN Q - (2 * Q * Q) \div (ExpPos[2 * v] + Q)
    ELSE -(Q - (2 * Q * Q) \div (ExpPos[-2 * v] + Q))

(***************************************************************************)
(* Configuration tables.  Rates in units of 0.0001, populations in         *)
(* persons, shares and multipliers in hundredths.                          *)
(***************************************************************************)

REGIONS ==
    [ National |-> [rate |-> 450, pop |-> 20000000],
      Ontario  |-> [rate |-> 470, pop |-> 15000000],
      BC       |-> [rate |-> 490, pop |-> 5300000],
      Alberta  |-> [rate |-> 430, pop |-> 4500000],
      Quebec   |-> [rate |-> 440, pop |-> 9000000] ]

RegionNames == DOMAIN REGIONS

BUYER_DEMOS ==
    [ Single    |-> [pct |-> 40, income_mult |-> 100, amort_bonus |-> 25],
      Couple    |-> [pct |-> 60, income_mult |-> 75,  amort_bonus |-> 25],
      FirstTime |-> [pct |-> 45, income_mult |-> 100, amort_bonus |-> 30],
      Repeat    |-> [pct |-> 55, income_mult |-> 100, amort_bonus |-> 25] ]

\* app3.py: no per-city rate (calc_stress_test_payment is called with its
\* default rate, 0.045)
CANADIAN_CITIES ==
    [ Toronto   |-> [pop |-> 6400000],
      Vancouver |-> [pop |-> 2700000],
      Montreal  |-> [pop |-> 4300000],
      Calgary   |-> [pop |-> 1600000],
      Edmonton  |-> [pop |-> 1500000],
      Ottawa    |-> [pop |-> 1400000],
      Winnipeg  |-> [pop |-> 850000],
      QuebecCity |-> [pop |-> 850000],
      Halifax   |-> [pop |-> 450000] ]

\* app4.py, app5.py
CITIES ==
    [ Toronto   |-> [pop |-> 6400000, rate |-> 470],
      Vancouver |-> [pop |-> 2700000, rate |-> 490],
      Montreal  |-> [pop |-> 4300000, rate |-> 440],
      Calgary   |-> [pop |-> 1600000, rate |-> 430],
      Edmonton  |-> [pop |-> 1500000, rate |-> 430] ]

(***************************************************************************)
(* IncomeDistributionModel                                                 *)
(***************************************************************************)

\* mu = 10.45 and sigma = 0.95 at scale Q; sqrt(2/3) = 0.8165 at scale Q
Mu == 104500

Sigma == 9500

Sqrt23 == 8165

\* Variant without the factor 0.5
OnePlus(t) == Q + t

\* 0.5 * (1 + t) at scale Q
HalfOfOnePlus(t) == (Q + t) \div 2

\* lognorm_cdf(income) for an income in cents; the result at scale Q
lognorm_cdf[income \in Int] ==
    IF income <= 0 THEN 0
    ELSE HalfOfOnePlus(Tanh[(Sqrt23 * (((Ln[income] - Ln[100] - Mu) * Q) \div Sigma)) \div Q])

\* max(0, 1 - lognorm_cdf(income))
SurvivalFraction[income \in Int] == Max(0, Q - lognorm_cdf[income])

(***************************************************************************)
(* DownPaymentRule: price in dollars, result in cents                      *)
(***************************************************************************)

\* Variant without the middle tier: 20% of the price above 500,000
calculate_down_payment_two_tier(price) ==
    IF price <= 500000 THEN price * 5 ELSE price * 20

\* Variant whose top tier asks 5% of the price
calculate_down_payment_top5(price) ==
    IF price <= 500000 THEN price * 5
    ELSE IF price <= 1500000 THEN 500000 * 5 + (price - 500000) * 10
    ELSE price * 5

\* app.py, app2.py, app3.py: the mid tier starts from 500000 * 0.05
calculate_down_payment(price) ==
    IF price <= 500000 THEN price * 5
    ELSE IF price <= 1500000 THEN 500000 * 5 + (price - 500000) * 10
    ELSE price * 20

\* Variant whose top tier starts at 1,500,000 itself
calculate_down_payment_boundary(price) ==
    IF price <= 500000 THEN price * 5
    ELSE IF price < 1500000 THEN 25000 * 100 + (price - 500000) * 10
    ELSE price * 20

\* app4.py, app5.py: the mid tier starts from the literal 25000
calculate_down_payment_map(price) ==
    IF price <= 500000 THEN price * 5
    ELSE IF price <= 1500000 THEN 25000 * 100 + (price - 500000) * 10
    ELSE price * 20

(***************************************************************************)
(* StressTestPayment                                                       *)
(***************************************************************************)

\* Variant without the 5.25% floor
StressRateNoFloor(contract_rate) == contract_rate + 200

\* max(0.0525, contract_rate + 0.02)
StressRate(contract_rate) == Max(525, contract_rate + 200)

\* Variant that compounds once a year
GrowthYearly(monthly_rate, n_payments) ==
    Power[RateOne + monthly_rate, n_payments \div 12]

\* (1 + monthly_rate)**n_payments at the RateOne scale
Growth(monthly_rate, n_payments) == Power[RateOne + monthly_rate, n_payments]

\* Variant with the annuity fraction inverted
MonthlyPaymentInverted(loan, monthly_rate, growth) ==
    MulDiv(MulDiv(loan, monthly_rate, RateOne), growth - RateOne, growth)

\* loan * (monthly_rate * growth) / (growth - 1)
MonthlyPayment(loan, monthly_rate, growth) ==
    MulDiv(MulDiv(loan, monthly_rate, RateOne), growth, growth - RateOne)

\* The body the three stress-test functions share, with its locals:
\*   loan * (monthly_rate * (1+monthly_rate)**n) / ((1+monthly_rate)**n - 1)
\*   and monthly_payment * 12 / 0.39.
\* A zero denominator raises ZeroDivisionError.
StressTest[price \in Int, down_payment \in Int, contract_rate \in Int, amort_years \in Int] ==
    LET loan         == price * 100 - down_payment
        stress_rate  == StressRate(contract_rate)
        n_payments   == amort_years * 12
        monthly_rate == stress_rate
        growth       == Growth(monthly_rate, n_payments)
        denominator  == growth - RateOne
        monthly_payment == MonthlyPayment(loan, monthly_rate, growth)
    IN  IF denominator = 0
        THEN [error |-> "ZeroDivisionError", income |-> 0,
              down_payment |-> down_payment, stress_rate |-> stress_rate,
              amort_years |-> amort_years, loan |-> loan,
              monthly_rate |-> monthly_rate, denominator |-> denominator]
        ELSE [error |-> "", income |-> MulDiv(monthly_payment * 12, 100, 39),
              down_payment |-> down_payment, stress_rate |-> stress_rate,
              amort_years |-> amort_years, loan |-> loan,
              monthly_rate |-> monthly_rate, denominator |-> denominator]

\* app.py, app2.py
calc_stress_test_payment(price, contract_rate, amort_years) ==
    StressTest[price, calculate_down_payment(price), contract_rate, amort_years]

\* app3.py: the term is fixed, n_payments = 25 * 12
calc_stress_test_payment_map(price, rate) ==
    StressTest[price, calculate_down_payment(price), rate, 25]

\* app4.py, app5.py: the term is fixed, n_payments = 25 * 12
calc_income_needed(price, rate) ==
    StressTest[price, calculate_down_payment_map(price), rate, 25]


(***************************************************************************)
(* BuyerEstimator                                                          *)
(***************************************************************************)

\* prob * population * share, in hundredths of a person (prob at scale Q,
\* share in hundredths)
Count(prob, pop, pct) == MulDiv(pop, prob * pct, Q)

\* Variant that leaves the income as it is
Unscaled(income, mult) == income

\* Variant that divides by the multiplier
ScaleInverted(income, mult) == MulDiv(income, 100, mult)

\* income * multiplier, the multiplier in hundredths
Scale(income, mult) == MulDiv(income, mult, 100)

\* Variant that adds the four segments
TotalOfAllSegments(Single, Couple, FirstTime, Repeat) ==
    Single + Couple + FirstTime + Repeat

\* buyers["Total"] = buyers["Single"] + buyers["Couple"]
TotalBuyers(Single, Couple, FirstTime, Repeat) == Single + Couple

\* app2.py calculate_buyer_breakdown(price, region_pop, region_rate): the
\* returned (buyers, income_single, down) with the function's locals
calculate_buyer_breakdown(price, region_pop, region_rate) ==
    LET single        == calc_stress_test_payment(price, region_rate, 25)
        income_single == single.income
        prob_single   == SurvivalFraction[income_single]
        income_couple == Scale(income_single, BUYER_DEMOS.Couple.income_mult)
        prob_couple   == SurvivalFraction[income_couple]
        income_ft     == calc_stress_test_payment(price, region_rate,
                             BUYER_DEMOS.FirstTime.amort_bonus).income
        prob_ft       == SurvivalFraction[income_ft]
        income_repeat == calc_stress_test_payment(price, region_rate,
                             BUYER_DEMOS.Repeat.amort_bonus).income
        prob_repeat   == SurvivalFraction[income_repeat]
        Single    == Count(prob_single, region_pop, BUYER_DEMOS.Single.pct)
        Couple    == Count(prob_couple, region_pop, BUYER_DEMOS.Couple.pct)
        FirstTime == Count(prob_ft, region_pop, BUYER_DEMOS.FirstTime.pct)
        Repeat    == Count(prob_repeat, region_pop, BUYER_DEMOS.Repeat.pct)
    IN  [ buyers |-> [Single |-> Single, Couple |-> Couple,
                      FirstTime |-> FirstTime, Repeat |-> Repeat,
                      Total |-> TotalBuyers(Single, Couple, FirstTime,
                                            Repeat)],
          income_single |-> income_single,
          down          |-> single.down_payment,
          stress        |-> single.stress_rate,
          amort         |-> single.amort_years,
          income_couple |-> income_couple,
          income_ft     |-> income_ft,
          income_repeat |-> income_repeat,
          prob_single   |-> prob_single,
          prob_couple   |-> prob_couple,
          prob_ft       |-> prob_ft,
          prob_repeat   |-> prob_repeat ]

\* (radius_km / 50)**0.7 at scale Q
RadiusFactor(radius_km) == Exp[(7 * (Ln[radius_km] - Ln[50])) \div 10]

(***************************************************************************)
(* The five scripts.  Streamlit runs a script top to bottom and runs it    *)
(* again, from a fresh namespace, whenever a widget changes.               *)
(***************************************************************************)

Apps == {"app", "app2", "app3", "app4", "app5"}

RegionalApps == {"app", "app2"}

MapApps == {"app3", "app4", "app5"}

\* lognorm_pdf is defined by app2.py only
DefinesPdf == {"app2"}

\* the INCOME chart block calls lognorm_pdf (app3.py has no such block)
CallsPdf == {"app", "app2", "app4", "app5"}

CityNames(a) == IF a = "app3" THEN DOMAIN CANADIAN_CITIES ELSE DOMAIN CITIES

\* the buyer-type radio / selectbox: "Total Market" ("Total" in app5.py),
\* "Couples (60%)" ("Couples Only (60%)" in app3.py), "Singles (40%)"
BuyerTypes == {"Total", "Couples", "Singles"}

\* st.number_input("Price ($)", 100000, 3000000, ...)
MinPrice == 100000

MaxPrice == 3000000

\* st.slider("Radius (km)", 5, 100, 25)
MinRadius == 5

MaxRadius == 100

\* Model bounds: the number of intervals of the price and radius grids
PriceGridPoints == 4

RadiusGridPoints == 2

\* Prices whose cases the tiers, the comparison threshold and the reference
\* scenario need, besides the grid
Prices ==
    { MinPrice + k * ((MaxPrice - MinPrice) \div PriceGridPoints) :
          k \in 0..PriceGridPoints }
    \cup {500000, 525000, 800000, 810000, 850000, 1000000,
          1500000, 1525000, 1718750}

Radii ==
    { MinRadius + k * ((MaxRadius - MinRadius) \div RadiusGridPoints) :
          k \in 0..RadiusGridPoints }
    \cup {25, 50, 100}

VARIABLES
    app,               \* the script being served
    pc,                \* the block of the script about to run
    error,             \* the exception that stopped the run, "" if none
    \* regional scripts
    price1, price2, region,      \* widgets
    region_data, region_pop,
    breakdown1, breakdown2,      \* calculate_buyer_breakdown's results
    buyer_difference,
    winner,                      \* what the WINNER block displays
    \* map scripts
    city, radius_km, price, buyer_type,   \* widgets
    income_single, down_payment,
    income_needed, pop_factor, prob_affordable, base_pop, buyers_in_radius,
    comparison, buyer_breakdown, couple_income,
    \* direct calls of the stress-test functions
    fn, fn_pc, args, ret, prev_args, prev_ret, prev_valid,
    \* direct calls of lognorm_cdf and of the survival expressions
    dist_pc, x, cdf, survival, one_minus_cdf,
    \* direct calls of calculate_buyer_breakdown
    est_pc, est_args, est_ret, est_prev

widgetVars == <<price1, price2, region, city, radius_km, price, buyer_type>>

regionalVars == <<region_data, region_pop, breakdown1, breakdown2,
                  buyer_difference, winner>>

mapVars == <<income_single, down_payment, income_needed, pop_factor,
             prob_affordable, base_pop, buyers_in_radius, comparison,
             buyer_breakdown, couple_income>>

fnVars == <<fn, fn_pc, args, ret, prev_args, prev_ret, prev_valid>>

distVars == <<dist_pc, x, cdf, survival, one_minus_cdf>>

estVars == <<est_pc, est_args, est_ret, est_prev>>

callVars == <<distVars, estVars>>

vars == <<app, pc, error, widgetVars, regionalVars, mapVars, fnVars, callVars>>

\* app.py calculate_buyer_breakdown(price, region_pop): the rate is read from
\* the global region_data
calculate_buyer_breakdown_global(p, pop) ==
    calculate_buyer_breakdown(p, pop, region_data.rate)

NoBreakdown ==
    [ buyers |-> [Single |-> 0, Couple |-> 0, FirstTime |-> 0, Repeat |-> 0,
                  Total |-> 0],
      income_single |-> 0, down |-> 0, stress |-> 0, amort |-> 0,
      income_couple |-> 0, income_ft |-> 0, income_repeat |-> 0,
      prob_single |-> 0, prob_couple |-> 0, prob_ft |-> 0, prob_repeat |-> 0 ]

NoWinner == [kind |-> "", property |-> 0, margin |-> 0]

NoResult ==
    [ error |-> "", income |-> 0, down_payment |-> 0, stress_rate |-> 0,
      amort_years |-> 0, loan |-> 0, monthly_rate |-> 0, denominator |-> 0 ]

NoArgs == [price |-> 0, rate |-> 0, years |-> 0]

\* A fresh namespace: nothing computed yet
FreshRegional ==
    /\ region_data = [rate |-> 0, pop |-> 0]
    /\ region_pop = 0
    /\ breakdown1 = NoBreakdown
    /\ breakdown2 = NoBreakdown
    /\ buyer_difference = 0
    /\ winner = NoWinner

FreshMap ==
    /\ income_single = 0
    /\ down_payment = 0
    /\ income_needed = 0
    /\ pop_factor = 0
    /\ prob_affordable = 0
    /\ base_pop = 0
    /\ buyers_in_radius = 0
    /\ comparison = <<>>
    /\ buyer_breakdown = <<>>
    /\ couple_income = 0

IdleFn ==
    /\ fn = ""
    /\ fn_pc = "idle"
    /\ args = NoArgs
    /\ ret = NoResult
    /\ prev_args = NoArgs
    /\ prev_ret = NoResult
    /\ prev_valid = FALSE

NoEstimateArgs == [price |-> 0, region_pop |-> 0]

IdleDist ==
    /\ dist_pc = "idle"
    /\ x = 0
    /\ cdf = 0
    /\ survival = 0
    /\ one_minus_cdf = 0

IdleEst ==
    /\ est_pc = "idle"
    /\ est_args = NoEstimateArgs
    /\ est_ret = NoBreakdown
    /\ est_prev = [valid |-> FALSE, args |-> NoEstimateArgs,
                   ret |-> NoBreakdown]

\* The widgets' default values
DefaultWidgets ==
    /\ price1 = 800000
    /\ price2 = 1000000
    /\ region = "National"
    /\ city = "Toronto"
    /\ radius_km = 25
    /\ price = 800000
    /\ buyer_type = "Total"

Init ==
    /\ app \in Apps
    /\ pc = "inputs"
    /\ error = ""
    /\ DefaultWidgets
    /\ FreshRegional
    /\ FreshMap
    /\ IdleFn
    /\ IdleDist
    /\ IdleEst

\* A widget change: the script runs again from the top
Rerun ==
    /\ pc \in {"done", "error"}
    /\ pc' = "inputs"
    /\ error' = ""
    /\ region_data' = [rate |-> 0, pop |-> 0]
    /\ region_pop' = 0
    /\ breakdown1' = NoBreakdown
    /\ breakdown2' = NoBreakdown
    /\ buyer_difference' = 0
    /\ winner' = NoWinner
    /\ income_single' = 0
    /\ down_payment' = 0
    /\ income_needed' = 0
    /\ pop_factor' = 0
    /\ prob_affordable' = 0
    /\ base_pop' = 0
    /\ buyers_in_radius' = 0
    /\ comparison' = <<>>
    /\ buyer_breakdown' = <<>>
    /\ couple_income' = 0
    /\ UNCHANGED <<app, fnVars, callVars>>

SetPrice1(p) ==
    /\ app \in RegionalApps
    /\ p # price1
    /\ Rerun
    /\ price1' = p
    /\ UNCHANGED <<price2, region, city, radius_km, price, buyer_type>>

SetPrice2(p) ==
    /\ app \in RegionalApps
    /\ p # price2
    /\ Rerun
    /\ price2' = p
    /\ UNCHANGED <<price1, region, city, radius_km, price, buyer_type>>

SelectRegion(r) ==
    /\ app \in RegionalApps
    /\ r # region
    /\ Rerun
    /\ region' = r
    /\ UNCHANGED <<price1, price2, city, radius_km, price, buyer_type>>

SelectCity(c) ==
    /\ app \in MapApps
    /\ c \in CityNames(app)
    /\ c # city
    /\ Rerun
    /\ city' = c
    /\ UNCHANGED <<price1, price2, region, radius_km, price, buyer_type>>

SetRadius(r) ==
    /\ app \in MapApps
    /\ r # radius_km
    /\ Rerun
    /\ radius_km' = r
    /\ UNCHANGED <<price1, price2, region, city, price, buyer_type>>

SetPrice(p) ==
    /\ app \in MapApps
    /\ p # price
    /\ Rerun
    /\ price' = p
    /\ UNCHANGED <<price1, price2, region, city, radius_km, buyer_type>>

SelectBuyerType(t) ==
    /\ app \in MapApps
    /\ t # buyer_type
    /\ Rerun
    /\ buyer_type' = t
    /\ UNCHANGED <<price1, price2, region, city, radius_km, price>>

\* The widgets are read (regional scripts: region_data = REGIONS[region],
\* region_pop = region_data["pop"])
ReadInputs ==
    /\ pc = "inputs"
    /\ app \in Apps
    /\ pc' = "calculate"
    /\ IF app \in RegionalApps
       THEN /\ region_data' = REGIONS[region]
            /\ region_pop' = REGIONS[region].pop
       ELSE UNCHANGED <<region_data, region_pop>>
    /\ UNCHANGED <<app, error, widgetVars, breakdown1, breakdown2,
                   buyer_difference, winner, mapVars, fnVars, callVars>>

\* "Calculate both properties" and buyer_difference
Calculate ==
    /\ pc = "calculate"
    /\ app \in RegionalApps
    /\ breakdown1' =
           IF app = "app"
           THEN calculate_buyer_breakdown_global(price1, region_pop)
           ELSE calculate_buyer_breakdown(price1, region_pop, region_data.rate)
    /\ breakdown2' =
           IF app = "app"
           THEN calculate_buyer_breakdown_global(price2, region_pop)
           ELSE calculate_buyer_breakdown(price2, region_pop, region_data.rate)
    /\ buyer_difference' = breakdown1'.buyers.Total - breakdown2'.buyers.Total
    /\ pc' = "winner"
    /\ UNCHANGED <<app, error, widgetVars, region_data, region_pop, winner,
                   mapVars, fnVars, callVars>>

\* The WINNER block.  app.py's else branch shows "Equal pricing - Similar
\* buyer pools"; app2.py has no else branch and shows nothing.
WinnerBlock(a, p1, p2, difference) ==
    IF Abs(p1 - p2) > 50000
    THEN IF difference > 0
         THEN [kind |-> "winner", property |-> 1, margin |-> difference]
         ELSE [kind |-> "winner", property |-> 2, margin |-> Abs(difference)]
    ELSE IF a = "app"
         THEN [kind |-> "Equal pricing - Similar buyer pools",
               property |-> 0, margin |-> 0]
         ELSE NoWinner

Winner ==
    /\ pc = "winner"
    /\ app \in RegionalApps
    /\ winner' = WinnerBlock(app, price1, price2, buyer_difference)
    /\ pc' = "chart"
    /\ UNCHANGED <<app, error, widgetVars, region_data, region_pop,
                   breakdown1, breakdown2, buyer_difference, mapVars, fnVars, callVars>>

\* The filter's population share, in hundredths
PopFactor(t) ==
    CASE t = "Total"   -> 100
      [] t = "Couples" -> 60
      [] t = "Singles" -> 40

\* The filter's income threshold
IncomeNeeded(t, single) == IF t = "Couples" THEN Scale(single, 75) ELSE single

\* city population * (radius_km / 50)**0.7
BasePop(pop, r) == MulDiv(pop, RadiusFactor(r), Q)

\* The CALCULATE block of the map scripts
CalculateMap ==
    /\ pc = "calculate"
    /\ app \in MapApps
    /\ LET r == IF app = "app3"
                THEN calc_stress_test_payment_map(price, 450)
                ELSE calc_income_needed(price, CITIES[city].rate)
           pop == IF app = "app3" THEN CANADIAN_CITIES[city].pop
                  ELSE CITIES[city].pop
       IN  /\ income_single' = r.income
           /\ down_payment' = r.down_payment
           /\ income_needed' = IncomeNeeded(buyer_type, r.income)
           /\ pop_factor' = PopFactor(buyer_type)
           /\ prob_affordable' = SurvivalFraction[income_needed']
           /\ base_pop' = BasePop(pop, radius_km)
           /\ buyers_in_radius' =
                  Count(prob_affordable', base_pop', pop_factor')
    /\ pc' = IF app = "app3" THEN "neighborhoods" ELSE "comparison"
    /\ UNCHANGED <<app, error, widgetVars, regionalVars, comparison,
                   buyer_breakdown, couple_income, fnVars, callVars>>

\* app3.py SUMMARY TABLE: hood_pop = base_pop * 0.3 / 0.5 / 0.2
Neighborhoods ==
    /\ pc = "neighborhoods"
    /\ app = "app3"
    /\ comparison' =
           [ Downtown  |-> Count(prob_affordable, MulDiv(base_pop, 30, 100),
                                 pop_factor),
             Suburbs   |-> Count(prob_affordable, MulDiv(base_pop, 50, 100),
                                 pop_factor),
             OuterRing |-> Count(prob_affordable, MulDiv(base_pop, 20, 100),
                                 pop_factor) ]
    /\ pc' = "done"
    /\ UNCHANGED <<app, error, widgetVars, regionalVars, income_single,
                   down_payment, income_needed, pop_factor, prob_affordable,
                   base_pop, buyers_in_radius, buyer_breakdown, couple_income,
                   fnVars, callVars>>

\* app4.py, app5.py CITY COMPARISON
CityComparison ==
    /\ pc = "comparison"
    /\ app \in {"app4", "app5"}
    /\ comparison' =
           [ c \in DOMAIN CITIES |->
               Count(SurvivalFraction[calc_income_needed(price, CITIES[c].rate).income],
                     BasePop(CITIES[c].pop, radius_km), pop_factor) ]
    /\ pc' = "breakdown"
    /\ UNCHANGED <<app, error, widgetVars, regionalVars, income_single,
                   down_payment, income_needed, pop_factor, prob_affordable,
                   base_pop, buyers_in_radius, buyer_breakdown, couple_income,
                   fnVars, callVars>>

\* app4.py buyer_breakdown: every row but Couples uses prob_affordable, the
\* Couples row has no max(0, ...)
buyer_breakdown_app4(prob, single, pop) ==
    [ Singles   |-> Count(prob, pop, 40),
      Couples   |-> Count(Q - lognorm_cdf[Scale(single, 75)], pop, 60),
      FirstTime |-> Count(prob, pop, 45),
      Repeat    |-> Count(prob, pop, 55) ]

\* app5.py buyer_types
buyer_types_app5(prob, single, pop) ==
    [ Singles |-> Count(prob, pop, 40),
      Couples |-> Count(SurvivalFraction[Scale(single, 75)], pop, 60) ]

Breakdown ==
    /\ pc = "breakdown"
    /\ app \in {"app4", "app5"}
    /\ buyer_breakdown' =
           IF app = "app4"
           THEN buyer_breakdown_app4(prob_affordable, income_single, base_pop)
           ELSE buyer_types_app5(prob_affordable, income_single, base_pop)
    /\ couple_income' = Scale(income_single, 75)
    /\ pc' = "chart"
    /\ UNCHANGED <<app, error, widgetVars, regionalVars, income_single,
                   down_payment, income_needed, pop_factor, prob_affordable,
                   base_pop, buyers_in_radius, comparison, fnVars, callVars>>

\* The income chart: lognorm_pdf(income_range) raises NameError where the
\* script does not define lognorm_pdf
Chart ==
    /\ pc = "chart"
    /\ app \in CallsPdf
    /\ IF app \in DefinesPdf
       THEN pc' = "done" /\ error' = ""
       ELSE pc' = "error" /\ error' = "NameError"
    /\ UNCHANGED <<app, widgetVars, regionalVars, mapVars, fnVars, callVars>>

Next ==
    \/ ReadInputs
    \/ Calculate
    \/ Winner
    \/ CalculateMap
    \/ Neighborhoods
    \/ CityComparison
    \/ Breakdown
    \/ Chart
    \/ \E p \in Prices : SetPrice1(p)
    \/ \E p \in Prices : SetPrice2(p)
    \/ \E r \in RegionNames : SelectRegion(r)
    \/ \E c \in DOMAIN CANADIAN_CITIES : SelectCity(c)
    \/ \E r \in Radii : SetRadius(r)
    \/ \E p \in Prices : SetPrice(p)
    \/ \E t \in BuyerTypes : SelectBuyerType(t)

Spec == Init /\ [][Next]_vars

(***************************************************************************)
(* Direct calls of the stress-test functions: one function is called with  *)
(* arguments drawn from the sets below, then with one argument changed.    *)
(***************************************************************************)

FnNames == {"calc_stress_test_payment", "calc_stress_test_payment_map",
            "calc_income_needed"}

\* Model bound: amortization terms of 1, 5, 10, ... years
MaxYearSteps == 6

FnYears(f) ==
    IF f = "calc_stress_test_payment"
    THEN {1} \cup {5 * k : k \in 1..MaxYearSteps}
    ELSE {25}

FnPrices == {0, 1, 100000, 500000, 500001, 800000, 1500000, 1500001, 3000000}

\* Contract rates on both sides of the 0.0325 point where the floor stops
\* deciding the stress rate
FnRates == {0, 300, 325, 326, 450, 600}

Apply(f, a) ==
    CASE f = "calc_stress_test_payment" ->
             calc_stress_test_payment(a.price, a.rate, a.years)
      [] f = "calc_stress_test_payment_map" ->
             calc_stress_test_payment_map(a.price, a.rate)
      [] f = "calc_income_needed" ->
             calc_income_needed(a.price, a.rate)

FnInit ==
    /\ app = ""
    /\ pc = "idle"
    /\ error = ""
    /\ DefaultWidgets
    /\ FreshRegional
    /\ FreshMap
    /\ fn \in FnNames
    /\ fn_pc = "ready"
    /\ args \in [price : FnPrices, rate : FnRates, years : FnYears(fn)]
    /\ ret = NoResult
    /\ prev_args = NoArgs
    /\ prev_ret = NoResult
    /\ prev_valid = FALSE
    /\ IdleDist
    /\ IdleEst

FnCall ==
    /\ fn_pc = "ready"
    /\ ret' = Apply(fn, args)
    /\ fn_pc' = "returned"
    /\ UNCHANGED <<app, pc, error, widgetVars, regionalVars, mapVars, fn, args,
                   prev_args, prev_ret, prev_valid, callVars>>

\* The next call: the last call is remembered and one argument changes
NextCall(a) ==
    /\ fn_pc = "returned"
    /\ a # args
    /\ prev_args' = args
    /\ prev_ret' = ret
    /\ prev_valid' = TRUE
    /\ args' = a
    /\ ret' = NoResult
    /\ fn_pc' = "ready"
    /\ UNCHANGED <<app, pc, error, widgetVars, regionalVars, mapVars, fn,
                   callVars>>

FnSetPrice(p) == NextCall([args EXCEPT !.price = p])

FnSetRate(r) == NextCall([args EXCEPT !.rate = r])

FnSetYears(y) == NextCall([args EXCEPT !.years = y])

FnNext ==
    \/ FnCall
    \/ \E p \in FnPrices : FnSetPrice(p)
    \/ \E r \in FnRates : FnSetRate(r)
    \/ \E y \in FnYears(fn) : FnSetYears(y)

FnSpec == FnInit /\ [][FnNext]_vars

(***************************************************************************)
(* Direct calls of lognorm_cdf and of the two survival expressions the     *)
(* scripts use: max(0, 1 - lognorm_cdf(income)) and, in the Couples row of *)
(* app4.py, 1 - lognorm_cdf(income).                                       *)
(***************************************************************************)

\* Model bound: incomes of 10,000, 20,000, ... dollars
MaxIncomeSteps == 70

\* Incomes in cents: non-positive ones, a cent, a dollar, the grid, and
\* 20,000,000 dollars
Incomes ==
    {-15000000, -100, -1, 0, 1, 100, 2000000000}
    \cup {k * 1000000 : k \in 1..MaxIncomeSteps}

DistInit ==
    /\ app = ""
    /\ pc = "idle"
    /\ error = ""
    /\ DefaultWidgets
    /\ FreshRegional
    /\ FreshMap
    /\ IdleFn
    /\ IdleEst
    /\ dist_pc = "ready"
    /\ x \in Incomes
    /\ cdf = 0
    /\ survival = 0
    /\ one_minus_cdf = 0

DistCall ==
    /\ dist_pc = "ready"
    /\ cdf' = lognorm_cdf[x]
    /\ survival' = SurvivalFraction[x]
    /\ one_minus_cdf' = Q - lognorm_cdf[x]
    /\ dist_pc' = "returned"
    /\ UNCHANGED <<app, pc, error, widgetVars, regionalVars, mapVars, fnVars,
                   x, estVars>>

DistNextIncome(income) ==
    /\ dist_pc = "returned"
    /\ income # x
    /\ x' = income
    /\ dist_pc' = "ready"
    /\ UNCHANGED <<app, pc, error, widgetVars, regionalVars, mapVars, fnVars,
                   cdf, survival, one_minus_cdf, estVars>>

DistNext ==
    \/ DistCall
    \/ \E income \in Incomes : DistNextIncome(income)

DistSpec == DistInit /\ [][DistNext]_vars

(***************************************************************************)
(* Direct calls of calculate_buyer_breakdown from the namespace of a       *)
(* regional script: the explicit arguments are chosen freely, the globals  *)
(* region and region_data follow the region selectbox.                     *)
(***************************************************************************)

EstPrices == {500000, 800000, 1500000}

EstPops == {REGIONS.National.pop, REGIONS.BC.pop}

EstRates == {REGIONS.National.rate, REGIONS.Ontario.rate, REGIONS.Alberta.rate}

\* app.py: calculate_buyer_breakdown(price, region_pop);
\* app2.py: calculate_buyer_breakdown(price, region_pop, region_rate)
EstArgs(a) ==
    IF a = "app"
    THEN [price : EstPrices, region_pop : EstPops]
    ELSE [price : EstPrices, region_pop : EstPops, region_rate : EstRates]

Invoke(a, arguments) ==
    IF a = "app"
    THEN calculate_buyer_breakdown_global(arguments.price,
                                          arguments.region_pop)
    ELSE calculate_buyer_breakdown(arguments.price, arguments.region_pop,
                                   arguments.region_rate)

EstInit ==
    /\ app \in RegionalApps
    /\ pc = "idle"
    /\ error = ""
    /\ DefaultWidgets
    /\ region_data = REGIONS[region]
    /\ region_pop = REGIONS[region].pop
    /\ breakdown1 = NoBreakdown
    /\ breakdown2 = NoBreakdown
    /\ buyer_difference = 0
    /\ winner = NoWinner
    /\ FreshMap
    /\ IdleFn
    /\ IdleDist
    /\ est_pc = "ready"
    /\ est_args \in EstArgs(app)
    /\ est_ret = NoBreakdown
    /\ est_prev = [valid |-> FALSE, args |-> NoEstimateArgs,
                   ret |-> NoBreakdown]

EstCall ==
    /\ est_pc = "ready"
    /\ est_ret' = Invoke(app, est_args)
    /\ est_pc' = "returned"
    /\ UNCHANGED <<app, pc, error, widgetVars, regionalVars, mapVars, fnVars,
                   distVars, est_args, est_prev>>

\* The next invocation, with the same or with other explicit arguments; the
\* last invocation is remembered
EstNextCall(arguments) ==
    /\ est_pc = "returned"
    /\ est_prev' = [valid |-> TRUE, args |-> est_args, ret |-> est_ret]
    /\ est_args' = arguments
    /\ est_pc' = "ready"
    /\ UNCHANGED <<app, pc, error, widgetVars, regionalVars, mapVars, fnVars,
                   distVars, est_ret>>

\* The region selectbox changes between two invocations
EstSelectRegion(r) ==
    /\ est_pc = "ready"
    /\ r # region
    /\ region' = r
    /\ region_data' = REGIONS[r]
    /\ region_pop' = REGIONS[r].pop
    /\ UNCHANGED <<app, pc, error, price1, price2, city, radius_km, price,
                   buyer_type, breakdown1, breakdown2, buyer_difference,
                   winner, mapVars, fnVars, distVars, estVars>>

EstNext ==
    \/ EstCall
    \/ \E arguments \in EstArgs(app) : EstNextCall(arguments)
    \/ \E r \in RegionNames : EstSelectRegion(r)

EstSpec == EstInit /\ [][EstNext]_vars

(***************************************************************************)
(* Properties                                                              *)
(***************************************************************************)

\* The regional CALCULATE block has run
Calculated == app \in RegionalApps /\ pc \in {"winner", "chart", "done", "error"}

\* The WINNER block of a regional script has run
Compared == app \in RegionalApps /\ pc \in {"chart", "done", "error"}

\* The CALCULATE block of a map script has run
CalculatedMap ==
    app \in MapApps
    /\ pc \in {"neighborhoods", "comparison", "breakdown", "chart", "done",
               "error"}

\* The breakdown table of app4.py / app5.py has been built
BrokenDown == app \in {"app4", "app5"} /\ pc \in {"chart", "done", "error"}

\* The tiered schedule as the specification words it, in cents
TieredReference(p) ==
    IF p <= 500000 THEN 5 * p
    ELSE IF p <= 1500000 THEN 2500000 + 10 * (p - 500000)
    ELSE 20 * p

\* a*b <= c*d for a, b, c, d >= 0, without forming the products
ProductLeq(a, b, c, d) ==
    LET lhs == MulDivQR[a, b, 1048576]
        rhs == MulDivQR[c, d, 1048576]
    IN  lhs[1] < rhs[1] \/ (lhs[1] = rhs[1] /\ lhs[2] <= rhs[2])

\* C1: every variant of calculate_down_payment returns the tiered reference
\* (5% up to 500,000; 5% of 500,000 plus 10% of the excess up to 1,500,000;
\* 20% of the price above), and the loan is the price less that amount; the
\* price 800,000 gives down payment 55,000 and loan 745,000.
C1_TieredDownPayment ==
    fn_pc = "returned" =>
        /\ ret.down_payment = TieredReference(args.price)
        /\ ret.loan = args.price * 100 - TieredReference(args.price)
        /\ args.price = 800000 =>
               ret.down_payment = 5500000 /\ ret.loan = 74500000

C1_Reference800000 ==
    /\ fn_pc = "returned"
    /\ fn = "calc_income_needed"
    /\ args.price = 800000
    /\ ret.down_payment = 5500000
    /\ ret.loan = 74500000

\* Both prices on the same side of the 1,500,000 tier boundary
SameSideOfTopTier(p1, p2) ==
    (p1 <= 1500000 /\ p2 <= 1500000) \/ (p1 > 1500000 /\ p2 > 1500000)

\* The lower price needs less income, at the 25-year and the 30-year term
IncomeIncreasing(p1, b1, p2, b2) ==
    p1 < p2 =>
        /\ b1.income_single < b2.income_single
        /\ b1.income_ft < b2.income_ft

\* C2, as stated: for all prices p1 < p2 of the supported range, the same
\* rate and the same term, the income required for p1 is less than the one
\* required for p2, the pairs that straddle 1,500,000 included.
C2_IncomeIncreasingInPrice ==
    Calculated =>
        /\ IncomeIncreasing(price1, breakdown1, price2, breakdown2)
        /\ IncomeIncreasing(price2, breakdown2, price1, breakdown1)

\* C2, amended: for prices p1 < p2 that are both at most 1,500,000 (the
\* pairs that straddle 500,000 included) or both above 1,500,000, the same
\* rate and the same term, the income required for p1 is less than the one
\* required for p2.
C2_IncomeIncreasingWithinTopTierSide ==
    (Calculated /\ SameSideOfTopTier(price1, price2)) =>
        /\ IncomeIncreasing(price1, breakdown1, price2, breakdown2)
        /\ IncomeIncreasing(price2, breakdown2, price1, breakdown1)

C2_Straddles500000 ==
    /\ Calculated
    /\ price1 = 500000
    /\ price2 = 525000
    /\ breakdown1.income_single < breakdown2.income_single
    /\ breakdown1.income_ft < breakdown2.income_ft

\* C3: for a positive price and a fixed rate, a longer amortization term
\* requires no more income than a shorter one (so the 30-year First-Time
\* threshold is never above the 25-year one).
C3_IncomeDecreasingInYears ==
    ( /\ fn_pc = "returned"
      /\ prev_valid
      /\ args.price > 0
      /\ prev_args.price = args.price
      /\ prev_args.rate = args.rate ) =>
        /\ prev_args.years < args.years => ret.income <= prev_ret.income
        /\ prev_args.years > args.years => ret.income >= prev_ret.income

C3_ThirtyAfterTwentyFive ==
    /\ fn_pc = "returned"
    /\ prev_valid
    /\ fn = "calc_stress_test_payment"
    /\ prev_args = [price |-> 800000, rate |-> 450, years |-> 25]
    /\ args = [price |-> 800000, rate |-> 450, years |-> 30]
    /\ ret.income < prev_ret.income

\* C4: the stress rate is max(0.0525, contract rate + 0.02): 0.0525 for a
\* contract rate of at most 0.0325, the contract rate plus 0.02 otherwise;
\* it is never below 0.0525, the monthly rate is positive and the annuity
\* denominator is not zero.
C4_StressRateFloor ==
    fn_pc = "returned" =>
        /\ ret.stress_rate =
               (IF args.rate <= 325 THEN 525 ELSE args.rate + 200)
        /\ args.rate = 300 => ret.stress_rate = 525
        /\ args.rate = 450 => ret.stress_rate = 650
        /\ args.rate = 600 => ret.stress_rate = 800
        /\ ret.stress_rate >= 525
        /\ ret.monthly_rate > 0
        /\ ret.denominator > 0
        /\ ret.error = ""

C4_FloorActive ==
    /\ fn_pc = "returned"
    /\ args.rate = 300
    /\ ret.stress_rate = 525
    /\ ret.denominator > 0

\* The lower positive price has the smaller down payment and the smaller
\* down payment as a fraction of the price
DownPaymentOrdered(p1, d1, p2, d2) ==
    (0 < p1 /\ p1 <= p2) => (d1 <= d2 /\ ProductLeq(d1, p2, d2, p1))

\* C5: the down payment is non-decreasing in the price, and non-decreasing
\* as a fraction of the price; above 1,500,000 the flat 20% is more than the
\* mid-tier formula would give.
C5_DownPaymentMonotone ==
    fn_pc = "returned" =>
        /\ args.price > 1500000 =>
               ret.down_payment > 2500000 + 10 * (args.price - 500000)
        /\ prev_valid =>
               /\ DownPaymentOrdered(prev_args.price, prev_ret.down_payment,
                                     args.price, ret.down_payment)
               /\ DownPaymentOrdered(args.price, ret.down_payment,
                                     prev_args.price, prev_ret.down_payment)

C5_AcrossTopTier ==
    /\ fn_pc = "returned"
    /\ prev_valid
    /\ prev_args.price = 1500000
    /\ args.price = 1500001
    /\ prev_ret.down_payment = 12500000
    /\ ret.down_payment = 30000020

\* C6: Total is the Single count plus the Couple count; First-Time and
\* Repeat are not added.
C6_TotalIsSinglePlusCouple ==
    Calculated =>
        /\ breakdown1.buyers.Total =
               breakdown1.buyers.Single + breakdown1.buyers.Couple
        /\ breakdown2.buyers.Total =
               breakdown2.buyers.Single + breakdown2.buyers.Couple

C6_SegmentsCounted ==
    /\ Calculated
    /\ breakdown1.buyers.FirstTime > 0
    /\ breakdown1.buyers.Repeat > 0
    /\ breakdown1.buyers.Total =
           breakdown1.buyers.Single + breakdown1.buyers.Couple

\* C7: when the two prices differ by at most 50,000 the comparison reports
\* that there is no significant difference (app.py words it "Equal pricing -
\* Similar buyer pools") and declares no winner.
C7_NoSignificantDifference ==
    (Compared /\ Abs(price1 - price2) <= 50000) =>
        /\ winner.kind = "Equal pricing - Similar buyer pools"
        /\ winner.property = 0

\* app2.py, 800,000 against 810,000: the block displays nothing
C7_NothingReported ==
    /\ app = "app2"
    /\ pc = "chart"
    /\ price1 = 800000
    /\ price2 = 810000
    /\ winner = NoWinner

\* C8: when the two prices differ by more than 50,000 the declared winner is
\* the property with the larger Total, the margin is the absolute difference
\* of the Totals, and no property wins without the larger Total.
C8_WinnerHasLargerTotal ==
    (Compared /\ Abs(price1 - price2) > 50000) =>
        /\ winner.margin =
               Abs(breakdown1.buyers.Total - breakdown2.buyers.Total)
        /\ winner.property = 1 =>
               breakdown1.buyers.Total > breakdown2.buyers.Total
        /\ winner.property = 2 =>
               breakdown2.buyers.Total > breakdown1.buyers.Total

\* 1,500,000 against 1,718,750: the same loan, equal Totals, and Property 2
\* is declared the winner by 0
C8_WinnerOnEqualTotals ==
    /\ Compared
    /\ price1 = 1500000
    /\ price2 = 1718750
    /\ breakdown1.buyers.Total = breakdown2.buyers.Total
    /\ winner = [kind |-> "winner", property |-> 2, margin |-> 0]

\* The income a segment of the map scripts needs: its own term, its own
\* multiplier
SegmentIncome(term, mult) ==
    Scale(StressTest[price, calculate_down_payment_map(price),
                     CITIES[city].rate, term].income, mult)

\* survivalFraction(effective income) * population * weight
SegmentCount(term, mult, pct) ==
    Count(SurvivalFraction[SegmentIncome(term, mult)], base_pop, pct)

\* C9: every reported segment count is survivalFraction(the segment's own
\* effective income) * population * the segment's weight, with 25 years for
\* Single, Couple and Repeat and 30 years for First-Time, whatever buyer-type
\* filter is selected.
C9_SegmentCounts ==
    /\ Calculated =>
           \A b \in {breakdown1, breakdown2} :
               /\ b.buyers.Single =
                      Count(SurvivalFraction[b.income_single], region_pop, 40)
               /\ b.buyers.Couple =
                      Count(SurvivalFraction[b.income_couple], region_pop, 60)
               /\ b.buyers.FirstTime =
                      Count(SurvivalFraction[b.income_ft], region_pop, 45)
               /\ b.buyers.Repeat =
                      Count(SurvivalFraction[b.income_repeat], region_pop, 55)
    /\ BrokenDown =>
           /\ buyer_breakdown.Singles = SegmentCount(25, 100, 40)
           /\ buyer_breakdown.Couples = SegmentCount(25, 75, 60)
    /\ (BrokenDown /\ app = "app4") =>
           /\ buyer_breakdown.FirstTime = SegmentCount(30, 100, 45)
           /\ buyer_breakdown.Repeat = SegmentCount(25, 100, 55)

\* app4.py with the Couples filter: the Singles row is computed from the
\* couples' threshold
C9_SinglesRowFollowsFilter ==
    /\ BrokenDown
    /\ app = "app4"
    /\ buyer_type = "Couples"
    /\ buyer_breakdown.Singles # SegmentCount(25, 100, 40)
    /\ buyer_breakdown.Singles = Count(prob_affordable, base_pop, 40)

\* c is 0.75 * s, rounded down to the cent
ThreeQuarters(c, s) == 4 * c <= 3 * s /\ 3 * s < 4 * c + 4

\* C10: the Couple threshold is 0.75 times the Single income of the 25-year
\* stress test, in the regional scripts, in the map scripts' couple filter
\* and in their couple breakdown row.
C10_CoupleThreshold ==
    /\ Calculated =>
           /\ breakdown1.income_single =
                  StressTest[price1, calculate_down_payment(price1),
                             region_data.rate, 25].income
           /\ breakdown2.income_single =
                  StressTest[price2, calculate_down_payment(price2),
                             region_data.rate, 25].income
           /\ ThreeQuarters(breakdown1.income_couple, breakdown1.income_single)
           /\ ThreeQuarters(breakdown2.income_couple, breakdown2.income_single)
    /\ CalculatedMap =>
           /\ income_single =
                  (IF app = "app3"
                   THEN StressTest[price, calculate_down_payment(price), 450,
                                   25].income
                   ELSE StressTest[price, calculate_down_payment_map(price),
                                   CITIES[city].rate, 25].income)
           /\ buyer_type = "Couples" =>
                  ThreeQuarters(income_needed, income_single)
           /\ buyer_type # "Couples" => income_needed = income_single
    /\ BrokenDown =>
           /\ ThreeQuarters(couple_income, income_single)
           /\ buyer_breakdown.Couples =
                  Count(SurvivalFraction[couple_income], base_pop, 60)

C10_CoupleFilter ==
    /\ CalculatedMap
    /\ app = "app3"
    /\ buyer_type = "Couples"
    /\ price = 800000
    /\ income_single > 0
    /\ income_needed < income_single
    /\ ThreeQuarters(income_needed, income_single)

\* C11: lognorm_cdf returns exactly 0 for an income <= 0 and a value in
\* [0,1] otherwise; the survival fraction max(0, 1 - cdf) lies in [0,1], and
\* the expression 1 - cdf that app4.py's Couples row uses without the max has
\* the same value.
C11_FractionsInUnitInterval ==
    dist_pc = "returned" =>
        /\ x <= 0 => cdf = 0
        /\ 0 <= cdf /\ cdf <= Q
        /\ survival = Max(0, Q - cdf)
        /\ 0 <= survival /\ survival <= Q
        /\ one_minus_cdf = survival

C11_InteriorFraction ==
    /\ dist_pc = "returned"
    /\ x = 15000000
    /\ 0 < cdf /\ cdf < Q
    /\ 0 < survival /\ survival < Q
    /\ one_minus_cdf = survival

\* C12: a call of the qualifying-income computation with a non-positive
\* price or a non-positive amortization term yields an InvalidInput error,
\* never a numeric income and down payment.
C12_InvalidInputSignalled ==
    (fn_pc = "returned" /\ (args.price <= 0 \/ args.years <= 0)) =>
        ret.error = "InvalidInput"

\* Price 0: the call returns income 0 and down payment 0 and no error
C12_ZeroPriceReturnsNumbers ==
    /\ fn_pc = "returned"
    /\ args.price = 0
    /\ ret.error = ""
    /\ ret.income = 0
    /\ ret.down_payment = 0

\* C13: two invocations of calculate_buyer_breakdown with the same explicit
\* arguments return the same estimate, whatever region is selected.
C13_SameArgumentsSameEstimate ==
    (est_pc = "returned" /\ est_prev.valid /\ est_prev.args = est_args) =>
        est_ret = est_prev.ret

\* app.py: the same price and population, another region selected between
\* the two invocations, another estimate
C13_EstimateFollowsRegion ==
    /\ app = "app"
    /\ est_pc = "returned"
    /\ est_prev.valid
    /\ est_prev.args = est_args
    /\ est_args = [price |-> 800000, region_pop |-> 20000000]
    /\ est_ret.buyers.Total # est_prev.ret.buyers.Total

\* The reference scenario: price 800,000 at the contract rate 0.045
ReferenceScenario == Calculated /\ price1 = 800000 /\ region_data.rate = 450

\* C14, as stated: in the reference scenario (800,000, 0.045, 25 years) the
\* qualifying income lies between 180,000 and 220,000 and the survival
\* fraction at that income lies strictly between 0 and 1, within 0.02 to 0.15.
C14_ReferenceIncome180To220 ==
    ReferenceScenario =>
        /\ breakdown1.amort = 25
        /\ 18000000 <= breakdown1.income_single
        /\ breakdown1.income_single <= 22000000
        /\ 200 <= breakdown1.prob_single /\ breakdown1.prob_single <= 1500

\* C14, amended: in the reference scenario the qualifying income is about
\* 154,780 (between 154,000 and 156,000), and the survival fraction at that
\* income, about 0.07, lies strictly between 0 and 1, within 0.02 to 0.15.
C14_ReferenceIncomeNear154780 ==
    ReferenceScenario =>
        /\ breakdown1.amort = 25
        /\ 15400000 <= breakdown1.income_single
        /\ breakdown1.income_single <= 15600000
        /\ 0 < breakdown1.prob_single /\ breakdown1.prob_single < Q
        /\ 200 <= breakdown1.prob_single /\ breakdown1.prob_single <= 1500

C14_ReferenceComputed ==
    /\ ReferenceScenario
    /\ app = "app2"
    /\ region = "National"
    /\ breakdown1.income_single > 15400000
    /\ breakdown1.income_single < 15600000
    /\ breakdown1.prob_single > 600
    /\ breakdown1.prob_single < 800

\* C15: for every valid combination of inputs, a run of each script goes
\* through its stages and never enters an error state; the chart stage finds
\* lognorm_pdf defined.
C15_NoErrorState ==
    /\ pc # "error"
    /\ error = ""
    /\ pc = "done" => (app \in CallsPdf => app \in DefinesPdf)

\* app4.py with the default inputs: the chart stage raises NameError
C15_ChartRaisesNameError ==
    /\ app = "app4"
    /\ city = "Toronto"
    /\ radius_km = 25
    /\ price = 800000
    /\ buyer_type = "Total"
    /\ pc = "error"
    /\ error = "NameError"

\* The contract rate a map script uses: 0.045 in app3.py, the city's rate in
\* app4.py and app5.py
MapRate == IF app = "app3" THEN 450 ELSE CITIES[city].rate

\* The regional estimate for the map script's price, rate and population
RegionalEstimate == calculate_buyer_breakdown(price, base_pop, MapRate).buyers

\* C16: for the same price, rate and population figure, the map script's
\* count under the Total filter equals the regional Total (Single + Couple),
\* and its Singles and Couples rows equal the regional Single and Couple
\* counts.
C16_MapMatchesRegional ==
    /\ (CalculatedMap /\ buyer_type = "Total") =>
           buyers_in_radius = RegionalEstimate.Total
    /\ BrokenDown =>
           /\ buyer_breakdown.Singles = RegionalEstimate.Single
           /\ buyer_breakdown.Couples = RegionalEstimate.Couple

\* app5.py, Toronto, 50 km, 800,000, Total: the headline count is the single
\* threshold's survival fraction times the whole population, below the
\* regional Total
C16_TotalBelowRegionalTotal ==
    /\ CalculatedMap
    /\ app = "app5"
    /\ city = "Toronto"
    /\ radius_km = 50
    /\ price = 800000
    /\ buyer_type = "Total"
    /\ buyers_in_radius = Count(prob_affordable, base_pop, 100)
    /\ buyers_in_radius < RegionalEstimate.Total

\* The bounds of one estimate for the population pop: counts in hundredths
\* of a person, weights in hundredths
EstimateBounded(b, pop) ==
    /\ 0 <= b.buyers.Single /\ b.buyers.Single <= 40 * pop
    /\ 0 <= b.buyers.Couple /\ b.buyers.Couple <= 60 * pop
    /\ 0 <= b.buyers.FirstTime /\ b.buyers.FirstTime <= 45 * pop
    /\ 0 <= b.buyers.Repeat /\ b.buyers.Repeat <= 55 * pop
    /\ b.prob_couple >= b.prob_single
    /\ b.buyers.Total <= 100 * pop

\* C17: in every estimate of calculate_buyer_breakdown each segment count is
\* at least 0 and at most the segment's weight times the region population,
\* the Couple survival fraction is at least the Single one, and Total is at
\* most the region population.
C17_EstimateWithinPopulation ==
    Calculated =>
        /\ EstimateBounded(breakdown1, region_pop)
        /\ EstimateBounded(breakdown2, region_pop)

C17_CouplesQualifyMoreOften ==
    /\ Calculated
    /\ price1 = 800000
    /\ breakdown1.prob_couple > breakdown1.prob_single
    /\ breakdown1.buyers.Single > 0
    /\ breakdown1.buyers.Total > breakdown1.buyers.Single
    /\ breakdown1.buyers.Total < 100 * region_pop

====
